---- MODULE Spec2Model ----
(***************************************************************************)
(* Model of the ILI9342C display driver (src/src/lib.rs).                  *)
(*                                                                         *)
(* The driver talks to two collaborators: a write-only transport           *)
(* (send_commands / send_data, both fallible) and a millisecond delay.     *)
(* Every driver operation is modelled as one action.  The calls an         *)
(* operation would make if nothing failed are its "script"; the transport  *)
(* answers the failAt-th call with an error (failAt = 0: never), and the   *)
(* `?` operators of the source end the operation at that call.  The calls  *)
(* actually made by the operation that returned last are kept in `trace`.  *)
(***************************************************************************)
EXTENDS Integers, Sequences, FiniteSets, TLC

VARIABLES
    pc,         \* caller position: "start", "ready", "returned"
    drv,        \* the Ili9342C value: [width, height, landscape], or NoDriver
    panelMode,  \* orientation whose mode byte the panel accepted last
    size,       \* the DisplaySize the driver was built for
    call,       \* the operation that returned last, with its arguments
    pre,        \* drv and panelMode as they were when that operation began
    result,     \* what it returned: "Ok" or "Err"
    trace       \* the collaborator calls it made, in order

vars == <<pc, drv, panelMode, size, call, pre, result, trace>>

----------------------------------------------------------------------------
(* Bounds of the model                                                     *)

SmallW == 4        \* width of the small panel
SmallH == 2        \* height of the small panel
MaxPixels == 2     \* longest pixel sequence given to draw_iter
MaxRectW == 2      \* widest rectangle given to fill_contiguous
MaxRectH == 2      \* tallest rectangle given to fill_contiguous
MaxRaw == 2        \* longest word sequence given to draw_raw_iter

----------------------------------------------------------------------------
(* enum Command                                                            *)

SoftwareReset == 1
SleepModeOn == 16
SleepModeOff == 17
InvertOn == 33
DisplayOff == 40
DisplayOn == 41
ColumnAddressSet == 42
PageAddressSet == 43
MemoryWrite == 44
PixelFormatSet == 58
MemoryAccessControl == 54
RBGInterface == 176
DisplayFunctionControl == 182
PowerControl1 == 192
PowerControl2 == 193
ExtC == 200
GammaControlPos1 == 224
GammaControlNeg1 == 225
InterfaceCtrl == 246

----------------------------------------------------------------------------
(* DisplaySize, Orientation, ModeState                                     *)

WIDTH == 320
HEIGHT == 240

\* The implementations of the DisplaySize trait the driver is built with:
\* the crate's DisplaySize320x240 and a small panel.
Sizes == { [WIDTH |-> WIDTH, HEIGHT |-> HEIGHT],
           [WIDTH |-> SmallW, HEIGHT |-> SmallH] }

Orientation == {"Portrait", "PortraitFlipped", "Landscape", "LandscapeFlipped"}

mode(m) ==
    CASE m = "Landscape"        -> 8
      [] m = "Portrait"         -> 32 + 8
      [] m = "LandscapeFlipped" -> 128 + 8
      [] m = "PortraitFlipped"  -> 64 + 128 + 32 + 8

is_landscape(m) ==
    CASE m \in {"Landscape", "LandscapeFlipped"} -> TRUE
      [] m \in {"Portrait", "PortraitFlipped"}   -> FALSE

ModeState == {"On", "Off"}

NoDriver == [width |-> 0, height |-> 0, landscape |-> FALSE, none |-> TRUE]

Driver(w, h, l) == [width |-> w, height |-> h, landscape |-> l, none |-> FALSE]

----------------------------------------------------------------------------
(* Integer conversions                                                     *)

AsU16(x) == x % 65536
AsU8(x) == x % 256
Min(a, b) == IF a < b THEN a ELSE b
Max(a, b) == IF a > b THEN a ELSE b

\* Rgb565 -> RawU16 -> u16
RawU16(c) == c.r * 2048 + c.g * 32 + c.b

\* DataFormat::U16BEIter: each word goes out high byte first
U16BEBytes(words) ==
    [i \in 1..(2 * Len(words)) |->
        IF i % 2 = 1 THEN words[(i + 1) \div 2] \div 256
                     ELSE words[i \div 2] % 256]

----------------------------------------------------------------------------
(* Collaborator calls                                                      *)

\* A function over 1..n held as a sequence value
AsSeq(f) == f \o <<>>

Ev(k, fmt, d) == [k |-> k, fmt |-> fmt, d |-> AsSeq(d), ok |-> TRUE]
SendCommands(c) == Ev("cmd", "U8", <<c>>)
SendData(args) == Ev("data", "U8", args)
SendData16(ws) == Ev("data", "U16BE", ws)
DelayMs(ms) == Ev("delay", "ms", <<ms>>)

\* The bytes a call puts on the wire
Wire(e) == IF e.fmt = "U16BE" THEN U16BEBytes(e.d) ELSE e.d

IsTransport(e) == e.k # "delay"

NumCalls(script) == Cardinality({i \in DOMAIN script : IsTransport(script[i])})

\* Position in the script of the n-th transport call
CallPos(script, n) ==
    CHOOSE i \in DOMAIN script :
        /\ IsTransport(script[i])
        /\ Cardinality({j \in 1..i : IsTransport(script[j])}) = n

\* Variant: the error of the failAt-th call is dropped and the operation
\* carries on with the rest of the script.
Exec_ignoring_error(script, failAt) ==
    IF failAt = 0 THEN script
    ELSE LET cut == CallPos(script, failAt)
         IN [i \in DOMAIN script |-> IF i = cut THEN [script[i] EXCEPT !.ok = FALSE]
                                                ELSE script[i]]

\* Variant: the failed call is made once more and the operation goes on.
Exec_retrying(script, failAt) ==
    IF failAt = 0 THEN script
    ELSE LET cut == CallPos(script, failAt)
         IN [i \in 1..cut |-> IF i = cut THEN [script[i] EXCEPT !.ok = FALSE]
                                         ELSE script[i]]
            \o SubSeq(script, cut, Len(script))

\* The calls made when the transport fails its failAt-th call: every `?`
\* returns at the first error, so the script is cut right after that call.
Exec(script, failAt) ==
    IF failAt = 0 THEN script
    ELSE LET cut == CallPos(script, failAt)
         IN [i \in 1..cut |-> IF i = cut THEN [script[i] EXCEPT !.ok = FALSE]
                                         ELSE script[i]]

Outcome(failAt) == IF failAt = 0 THEN "Ok" ELSE "Err"

----------------------------------------------------------------------------
(* Scripts of the private helpers                                          *)

\* Variant: with no argument bytes the data channel is left alone.
command_skip_empty(cmd, args) ==
    IF args = <<>> THEN <<SendCommands(cmd)>>
    ELSE <<SendCommands(cmd), SendData(args)>>

command(cmd, args) == <<SendCommands(cmd), SendData(args)>>

write_iter(data) == command(MemoryWrite, <<>>) \o <<SendData16(data)>>

set_window(x0, y0, x1, y1) ==
    command(ColumnAddressSet,
            <<AsU8(x0 \div 256), AsU8(x0 % 256), AsU8(x1 \div 256), AsU8(x1 % 256)>>)
    \o command(PageAddressSet,
            <<AsU8(y0 \div 256), AsU8(y0 % 256), AsU8(y1 \div 256), AsU8(y1 % 256)>>)

\* Variant: the stream is sent before the window is programmed.
draw_raw_iter_calls_stream_first(x0, y0, x1, y1, data) ==
    write_iter(data) \o set_window(x0, y0, x1, y1)

draw_raw_iter_calls(x0, y0, x1, y1, data) ==
    set_window(x0, y0, x1, y1) \o write_iter(data)

\* Variant: On and Off are exchanged.
sleep_mode_calls_swapped(m) ==
    IF m = "On" THEN command(SleepModeOff, <<>>) ELSE command(SleepModeOn, <<>>)

sleep_mode_calls(m) ==
    IF m = "On" THEN command(SleepModeOn, <<>>) ELSE command(SleepModeOff, <<>>)

display_mode_calls(m) ==
    IF m = "On" THEN command(DisplayOn, <<>>) ELSE command(DisplayOff, <<>>)

\* Variant: the 120 ms settling delay is taken after DisplayOn instead of
\* right after SleepModeOff.
new_calls_late_settle(m) ==
    command(SoftwareReset, <<>>)
    \o <<DelayMs(10)>>
    \o command(ExtC, <<255, 147, 66>>)
    \o command(PowerControl1, <<18, 18>>)
    \o command(PowerControl2, <<3>>)
    \o command(RBGInterface, <<224>>)
    \o command(InterfaceCtrl, <<0, 1, 1>>)
    \o command(MemoryAccessControl, <<mode(m)>>)
    \o command(PixelFormatSet, <<85>>)
    \o command(DisplayFunctionControl, <<8, 130, 39>>)
    \o command(GammaControlPos1,
               <<0, 12, 17, 4, 17, 8, 55, 137, 76, 6, 12, 10, 46, 52, 15>>)
    \o command(GammaControlNeg1,
               <<0, 11, 17, 5, 19, 9, 51, 103, 72, 7, 14, 11, 46, 51, 15>>)
    \o sleep_mode_calls("Off")
    \o display_mode_calls("On")
    \o <<DelayMs(120)>>
    \o command(InvertOn, <<>>)
    \o <<DelayMs(5)>>

new_calls(m) ==
    command(SoftwareReset, <<>>)
    \o <<DelayMs(10)>>
    \o command(ExtC, <<255, 147, 66>>)
    \o command(PowerControl1, <<18, 18>>)
    \o command(PowerControl2, <<3>>)
    \o command(RBGInterface, <<224>>)
    \o command(InterfaceCtrl, <<0, 1, 1>>)
    \o command(MemoryAccessControl, <<mode(m)>>)
    \o command(PixelFormatSet, <<85>>)
    \o command(DisplayFunctionControl, <<8, 130, 39>>)
    \o command(GammaControlPos1,
               <<0, 12, 17, 4, 17, 8, 55, 137, 76, 6, 12, 10, 46, 52, 15>>)
    \o command(GammaControlNeg1,
               <<0, 11, 17, 5, 19, 9, 51, 103, 72, 7, 14, 11, 46, 51, 15>>)
    \o sleep_mode_calls("Off")
    \o <<DelayMs(120)>>
    \o display_mode_calls("On")
    \o command(InvertOn, <<>>)
    \o <<DelayMs(5)>>

----------------------------------------------------------------------------
(* Rectangle and Point of embedded_graphics_core, as the driver uses them  *)

None == <<>>

Rect(x, y, w, h) == [x |-> x, y |-> y, w |-> w, h |-> h]

\* Rectangle::bottom_right: None for a rectangle of zero width or height
bottom_right(r) ==
    IF r.w > 0 /\ r.h > 0 THEN <<r.x + r.w - 1, r.y + r.h - 1>> ELSE None

\* Rectangle::contains
contains(r, p) ==
    /\ p[1] >= r.x
    /\ p[2] >= r.y
    /\ bottom_right(r) # None
    /\ p[1] <= bottom_right(r)[1]
    /\ p[2] <= bottom_right(r)[2]

Overlaps(a0, a1, b0, b1) == Max(a0, b0) <= Min(a1, b1)

\* Rectangle::intersection
intersection(a, b) ==
    LET abr == bottom_right(a)
        bbr == bottom_right(b)
    IN  IF abr # None /\ bbr # None
          /\ Overlaps(a.x, abr[1], b.x, bbr[1])
          /\ Overlaps(a.y, abr[2], b.y, bbr[2])
        THEN LET x0 == Max(a.x, b.x)
                 y0 == Max(a.y, b.y)
                 x1 == Min(abr[1], bbr[1])
                 y1 == Min(abr[2], bbr[2])
             IN Rect(x0, y0, x1 - x0 + 1, y1 - y0 + 1)
        ELSE IF abr = None /\ bbr # None
                /\ Overlaps(a.x, a.x, b.x, bbr[1])
                /\ Overlaps(a.y, a.y, b.y, bbr[2])
        THEN a
        ELSE IF abr # None /\ bbr = None
                /\ Overlaps(a.x, abr[1], b.x, b.x)
                /\ Overlaps(a.y, abr[2], b.y, b.y)
        THEN b
        ELSE Rect(0, 0, 0, 0)

\* Rectangle::points: row by row, left to right
points(r) ==
    IF bottom_right(r) = None THEN <<>>
    ELSE [i \in 1..(r.w * r.h) |-> <<r.x + ((i - 1) % r.w), r.y + ((i - 1) \div r.w)>>]

\* Iterator::zip
zip(s, t) == [i \in 1..Min(Len(s), Len(t)) |-> <<s[i], t[i]>>]

\* OriginDimensions::bounding_box over size()
bounding_box(d) == Rect(0, 0, d.width, d.height)

----------------------------------------------------------------------------
(* Scripts of the drawing operations                                       *)

\* Variant: the window is programmed with x and y exchanged.
RECURSIVE draw_iter_calls_transposed(_, _)
draw_iter_calls_transposed(d, pixels) ==
    IF pixels = <<>> THEN <<>>
    ELSE LET px == Head(pixels)
             x == AsU16(px.p[1])
             y == AsU16(px.p[2])
         IN (IF contains(bounding_box(d), px.p)
                THEN draw_raw_iter_calls(y, x, y, x, <<RawU16(px.c)>>)
                ELSE <<>>)
            \o draw_iter_calls_transposed(d, Tail(pixels))

\* Variant: pixels are not tested against the bounding box.
RECURSIVE draw_iter_calls_unclipped(_, _)
draw_iter_calls_unclipped(d, pixels) ==
    IF pixels = <<>> THEN <<>>
    ELSE LET px == Head(pixels)
             x == AsU16(px.p[1])
             y == AsU16(px.p[2])
         IN draw_raw_iter_calls(x, y, x, y, <<RawU16(px.c)>>)
            \o draw_iter_calls_unclipped(d, Tail(pixels))

RECURSIVE draw_iter_calls(_, _)
draw_iter_calls(d, pixels) ==
    IF pixels = <<>> THEN <<>>
    ELSE LET px == Head(pixels)
             x == AsU16(px.p[1])
             y == AsU16(px.p[2])
         IN (IF contains(bounding_box(d), px.p)
                THEN draw_raw_iter_calls(x, y, x, y, <<RawU16(px.c)>>)
                ELSE <<>>)
            \o draw_iter_calls(d, Tail(pixels))

\* Variant: the window's far corner is top_left + size, one past the
\* rectangle.
fill_contiguous_calls_exclusive(d, area, colors) ==
    LET drawable_area == intersection(area, bounding_box(d))
        drawable_bottom_right == bottom_right(drawable_area)
        pairs == zip(points(area), colors)
    IN  IF drawable_bottom_right # None
        THEN LET x0 == AsU16(drawable_area.x)
                 y0 == AsU16(drawable_area.y)
                 x1 == AsU16(drawable_area.x + drawable_area.w)
                 y1 == AsU16(drawable_area.y + drawable_area.h)
                 kept == IF area = drawable_area
                         THEN pairs
                         ELSE SelectSeq(pairs, LAMBDA pr : contains(drawable_area, pr[1]))
             IN draw_raw_iter_calls(x0, y0, x1, y1,
                                    [i \in 1..Len(kept) |-> RawU16(kept[i][2])])
        ELSE <<>>

\* Variant: the partly visible rectangle is streamed without the filter.
fill_contiguous_calls_unfiltered(d, area, colors) ==
    LET drawable_area == intersection(area, bounding_box(d))
        drawable_bottom_right == bottom_right(drawable_area)
        pairs == zip(points(area), colors)
    IN  IF drawable_bottom_right # None
        THEN LET x0 == AsU16(drawable_area.x)
                 y0 == AsU16(drawable_area.y)
                 x1 == AsU16(drawable_bottom_right[1])
                 y1 == AsU16(drawable_bottom_right[2])
             IN draw_raw_iter_calls(x0, y0, x1, y1,
                                    [i \in 1..Len(pairs) |-> RawU16(pairs[i][2])])
        ELSE <<>>

\* Variant: the empty intersection is not told apart; the window is
\* programmed from the intersection's corner and size whatever they are.
fill_contiguous_calls_unguarded(d, area, colors) ==
    LET drawable_area == intersection(area, bounding_box(d))
        pairs == zip(points(area), colors)
        x0 == AsU16(drawable_area.x)
        y0 == AsU16(drawable_area.y)
        x1 == AsU16(drawable_area.x + drawable_area.w - 1)
        y1 == AsU16(drawable_area.y + drawable_area.h - 1)
        kept == IF area = drawable_area
                THEN pairs
                ELSE SelectSeq(pairs, LAMBDA pr : contains(drawable_area, pr[1]))
    IN draw_raw_iter_calls(x0, y0, x1, y1,
                           [i \in 1..Len(kept) |-> RawU16(kept[i][2])])

\* Variant: a rectangle wholly on screen is streamed every colour given,
\* without pairing the colours with the rectangle's points.
fill_contiguous_calls_unzipped(d, area, colors) ==
    LET drawable_area == intersection(area, bounding_box(d))
        drawable_bottom_right == bottom_right(drawable_area)
        pairs == zip(points(area), colors)
    IN  IF drawable_bottom_right # None
        THEN LET x0 == AsU16(drawable_area.x)
                 y0 == AsU16(drawable_area.y)
                 x1 == AsU16(drawable_bottom_right[1])
                 y1 == AsU16(drawable_bottom_right[2])
                 kept == SelectSeq(pairs, LAMBDA pr : contains(drawable_area, pr[1]))
             IN IF area = drawable_area
                THEN draw_raw_iter_calls(x0, y0, x1, y1,
                                         [i \in 1..Len(colors) |-> RawU16(colors[i])])
                ELSE draw_raw_iter_calls(x0, y0, x1, y1,
                                         [i \in 1..Len(kept) |-> RawU16(kept[i][2])])
        ELSE <<>>

fill_contiguous_calls(d, area, colors) ==
    LET drawable_area == intersection(area, bounding_box(d))
        drawable_bottom_right == bottom_right(drawable_area)
        pairs == zip(points(area), colors)
    IN  IF drawable_bottom_right # None
        THEN LET x0 == AsU16(drawable_area.x)
                 y0 == AsU16(drawable_area.y)
                 x1 == AsU16(drawable_bottom_right[1])
                 y1 == AsU16(drawable_bottom_right[2])
                 kept == IF area = drawable_area
                         THEN pairs
                         ELSE SelectSeq(pairs, LAMBDA pr : contains(drawable_area, pr[1]))
             IN draw_raw_iter_calls(x0, y0, x1, y1,
                                    [i \in 1..Len(kept) |-> RawU16(kept[i][2])])
        ELSE <<>>

\* Variant: the column bound is taken from the height and the page bound
\* from the width.
clear_screen_calls_transposed(d, color) ==
    draw_raw_iter_calls(0, 0, AsU16(d.height), AsU16(d.width),
                        [i \in 1..(d.width * d.height) |-> color])

clear_screen_calls(d, color) ==
    draw_raw_iter_calls(0, 0, AsU16(d.width), AsU16(d.height),
                        [i \in 1..(d.width * d.height) |-> color])

clear_calls(d, color) == clear_screen_calls(d, RawU16(color))

----------------------------------------------------------------------------
(* Inputs                                                                  *)

\* The i-th colour of an input sequence; neighbouring colours differ
ColorAt(i) == [r |-> (5 * i) % 32, g |-> (7 * i) % 64, b |-> (3 * i) % 32]

RED == [r |-> 31, g |-> 0, b |-> 0]

ClearColors == {RED, ColorAt(1)}

Coords(n) == {-1, 0, n - 1, n}

DrawPoints(d) == Coords(d.width) \X Coords(d.height)

PixelSeqs(d) ==
    UNION { { [i \in 1..n |-> [p |-> ps[i], c |-> ColorAt(i)]] :
                ps \in [1..n -> DrawPoints(d)] } : n \in 0..MaxPixels }

Areas(d) ==
    { Rect(x, y, w, h) : x \in Coords(d.width) \cup {d.width - 2},
                         y \in Coords(d.height),
                         w \in 0..MaxRectW, h \in 0..MaxRectH }

ColorSeq(n) == [i \in 1..n |-> ColorAt(i)]

RawSeq(n) == [i \in 1..n |-> RawU16(ColorAt(i))]

Snapshot == [width |-> drv.width, height |-> drv.height,
             landscape |-> drv.landscape, panelMode |-> panelMode]

NoCall == [op |-> "none"]

----------------------------------------------------------------------------
(* State machine                                                           *)

Init ==
    /\ pc = "start"
    /\ drv = NoDriver
    /\ panelMode = "none"
    /\ size = [WIDTH |-> 0, HEIGHT |-> 0]
    /\ call = NoCall
    /\ pre = [width |-> 0, height |-> 0, landscape |-> FALSE, panelMode |-> "none"]
    /\ result = "none"
    /\ trace = <<>>

\* The operation makes the calls of `script` up to the failAt-th transport
\* call, which fails (failAt = 0: none fails), and returns to the caller
Returns(c, script, failAt) ==
    /\ call' = [c EXCEPT !.failAt = failAt]
    /\ pre' = Snapshot
    /\ result' = Outcome(failAt)
    /\ trace' = Exec(script, failAt)
    /\ pc' = "returned"

new ==
    /\ pc = "start"
    /\ \E SIZE \in Sizes, m \in Orientation :
        LET script == new_calls(m)
        IN \E failAt \in 0..NumCalls(script) :
            /\ Returns([op |-> "new", size |-> SIZE, mode |-> m, failAt |-> 0],
                       script, failAt)
            /\ drv' = IF failAt = 0 THEN Driver(SIZE.WIDTH, SIZE.HEIGHT, FALSE)
                                    ELSE NoDriver
            /\ panelMode' = IF failAt = 0 THEN m ELSE "none"
            /\ size' = SIZE

\* Variant: the stored flag is ignored; a landscape mode always exchanges
\* width and height.
Reoriented_toggle(d, m) ==
    IF is_landscape(m)
    THEN Driver(d.height, d.width, is_landscape(m))
    ELSE Driver(d.width, d.height, is_landscape(m))

\* Variant: width and height are exchanged but the flag is not stored.
Reoriented_stale_flag(d, m) ==
    IF d.landscape # is_landscape(m)
    THEN Driver(d.height, d.width, d.landscape)
    ELSE Driver(d.width, d.height, d.landscape)

\* Variant: the exchange copies the height over the width.
Reoriented_lossy(d, m) ==
    IF d.landscape # is_landscape(m)
    THEN Driver(d.height, d.height, is_landscape(m))
    ELSE Driver(d.width, d.height, is_landscape(m))

\* The fields of the driver after a successful set_orientation(m)
Reoriented(d, m) ==
    IF d.landscape # is_landscape(m)
    THEN Driver(d.height, d.width, is_landscape(m))
    ELSE Driver(d.width, d.height, is_landscape(m))

\* Variant: width and height are exchanged before the command is sent, so
\* the exchange stays when the command fails.
set_orientation_fields_eager(d, m, failAt) ==
    IF failAt = 0 THEN Reoriented(d, m)
    ELSE IF d.landscape # is_landscape(m)
         THEN Driver(d.height, d.width, d.landscape)
         ELSE d

\* The fields after set_orientation(m): the command comes first, and its
\* error returns before any field is touched
set_orientation_fields(d, m, failAt) ==
    IF failAt = 0 THEN Reoriented(d, m) ELSE d

set_orientation ==
    /\ pc = "ready"
    /\ \E m \in Orientation :
        LET script == command(MemoryAccessControl, <<mode(m)>>)
        IN \E failAt \in 0..NumCalls(script) :
            /\ Returns([op |-> "set_orientation", mode |-> m, failAt |-> 0],
                       script, failAt)
            /\ drv' = set_orientation_fields(drv, m, failAt)
            /\ panelMode' = IF failAt = 0 THEN m ELSE panelMode
    /\ UNCHANGED size

clear_screen ==
    /\ pc = "ready"
    /\ \E color \in {63488, 258} :
        LET script == clear_screen_calls(drv, color)
        IN \E failAt \in 0..NumCalls(script) :
            Returns([op |-> "clear_screen", color |-> color, failAt |-> 0],
                    script, failAt)
    /\ UNCHANGED <<drv, panelMode, size>>

clear ==
    /\ pc = "ready"
    /\ \E color \in ClearColors :
        LET script == clear_calls(drv, color)
        IN \E failAt \in 0..NumCalls(script) :
            Returns([op |-> "clear", color |-> color, failAt |-> 0],
                    script, failAt)
    /\ UNCHANGED <<drv, panelMode, size>>

draw_iter ==
    /\ pc = "ready"
    /\ \E pixels \in PixelSeqs(drv) :
        LET script == draw_iter_calls(drv, pixels)
        IN \E failAt \in 0..NumCalls(script) :
            Returns([op |-> "draw_iter", pixels |-> pixels, failAt |-> 0],
                    script, failAt)
    /\ UNCHANGED <<drv, panelMode, size>>

fill_contiguous ==
    /\ pc = "ready"
    /\ \E area \in Areas(drv) :
        \E n \in 0..(area.w * area.h + 1) :
            LET script == fill_contiguous_calls(drv, area, ColorSeq(n))
            IN \E failAt \in 0..NumCalls(script) :
                Returns([op |-> "fill_contiguous", area |-> area,
                         colors |-> ColorSeq(n), failAt |-> 0],
                        script, failAt)
    /\ UNCHANGED <<drv, panelMode, size>>

draw_raw_iter ==
    /\ pc = "ready"
    /\ \E x0, x1 \in {0, drv.width - 1}, y0, y1 \in {0, drv.height - 1},
          n \in 0..MaxRaw :
        LET script == draw_raw_iter_calls(x0, y0, x1, y1, RawSeq(n))
        IN \E failAt \in 0..NumCalls(script) :
            Returns([op |-> "draw_raw_iter", x0 |-> x0, y0 |-> y0, x1 |-> x1,
                     y1 |-> y1, data |-> RawSeq(n), failAt |-> 0],
                    script, failAt)
    /\ UNCHANGED <<drv, panelMode, size>>

sleep_mode ==
    /\ pc = "ready"
    /\ \E m \in ModeState :
        LET script == sleep_mode_calls(m)
        IN \E failAt \in 0..NumCalls(script) :
            Returns([op |-> "sleep_mode", mode |-> m, failAt |-> 0],
                    script, failAt)
    /\ UNCHANGED <<drv, panelMode, size>>

display_mode ==
    /\ pc = "ready"
    /\ \E m \in ModeState :
        LET script == display_mode_calls(m)
        IN \E failAt \in 0..NumCalls(script) :
            Returns([op |-> "display_mode", mode |-> m, failAt |-> 0],
                    script, failAt)
    /\ UNCHANGED <<drv, panelMode, size>>

\* The caller takes the Result; with a driver in hand it may call again.
\* A failed new() leaves no driver, and nothing can be called.
TakeResult ==
    /\ pc = "returned"
    /\ drv # NoDriver
    /\ pc' = "ready"
    /\ call' = NoCall
    /\ result' = "none"
    /\ trace' = <<>>
    /\ pre' = [width |-> 0, height |-> 0, landscape |-> FALSE, panelMode |-> "none"]
    /\ UNCHANGED <<drv, panelMode, size>>

Next ==
    \/ new
    \/ set_orientation
    \/ clear_screen
    \/ clear
    \/ draw_iter
    \/ fill_contiguous
    \/ draw_raw_iter
    \/ sleep_mode
    \/ display_mode
    \/ TakeResult

Spec == Init /\ [][Next]_vars

----------------------------------------------------------------------------
(* Vocabulary of the properties                                            *)

Done(op) == pc = "returned" /\ call.op = op

\* What a call put on the collaborator: its kind and its bytes on the wire
Sent(e) == <<e.k, Wire(e)>>

Cmd(op) == <<"cmd", <<op>>>>
Data(bytes) == <<"data", bytes>>
Wait(ms) == <<"delay", <<ms>>>>

HiLo(a, b) == <<a \div 256, a % 256, b \div 256, b % 256>>

BigEndian(words) ==
    [i \in 1..(2 * Len(words)) |->
        LET w == words[(i + 1) \div 2] IN IF i % 2 = 1 THEN w \div 256 ELSE w % 256]

\* One window program followed by one stream
WindowAndStream(x0, y0, x1, y1, words) ==
    << Cmd(42), Data(HiLo(x0, x1)), Cmd(43), Data(HiLo(y0, y1)),
       Cmd(44), Data(<<>>), Data(BigEndian(words)) >>

\* The calls made are `expected`, or when the transport failed a prefix of it
RunMatches(expected) ==
    /\ Len(trace) <= Len(expected)
    /\ \A i \in DOMAIN trace : Sent(trace[i]) = expected[i]
    /\ result = "Ok" => Len(trace) = Len(expected)

\* Only the last call made can be the one that failed
StopsAtFailure ==
    /\ \A i \in DOMAIN trace : ~trace[i].ok => i = Len(trace)
    /\ result = "Err" <=> (trace # <<>> /\ ~trace[Len(trace)].ok)

InBounds(p) == 0 <= p[1] /\ p[1] < pre.width /\ 0 <= p[2] /\ p[2] < pre.height

----------------------------------------------------------------------------
(* C1: a successful new() makes exactly the documented 15-step sequence    *)
(* of commands, arguments and delays, in order; the delays are 10, 120 and *)
(* 5 ms and nothing is sent between SleepModeOff and the 120 ms delay.     *)

InitSequence(m, gammaPos, gammaNeg) ==
    << Cmd(1), Data(<<>>), Wait(10),
       Cmd(200), Data(<<255, 147, 66>>),
       Cmd(192), Data(<<18, 18>>),
       Cmd(193), Data(<<3>>),
       Cmd(176), Data(<<224>>),
       Cmd(246), Data(<<0, 1, 1>>),
       Cmd(54), Data(<<mode(m)>>),
       Cmd(58), Data(<<85>>),
       Cmd(182), Data(<<8, 130, 39>>),
       Cmd(224), Data(gammaPos),
       Cmd(225), Data(gammaNeg),
       Cmd(17), Data(<<>>), Wait(120),
       Cmd(41), Data(<<>>),
       Cmd(33), Data(<<>>), Wait(5) >>

C1_InitSequence ==
    (Done("new") /\ result = "Ok") =>
        /\ Len(trace) = 31
        /\ Len(Wire(trace[21])) = 15
        /\ Len(Wire(trace[23])) = 15
        /\ [i \in 1..31 |-> Sent(trace[i])]
             = InitSequence(call.mode, Wire(trace[21]), Wire(trace[23]))
        /\ \A i \in 1..31 : trace[i].ok
        /\ SelectSeq([i \in 1..31 |-> Sent(trace[i])], LAMBDA e : e[1] = "delay")
             = <<Wait(10), Wait(120), Wait(5)>>
        /\ drv # NoDriver

C1_Witness ==
    /\ Done("new")
    /\ result = "Ok"
    /\ call.mode = "PortraitFlipped"
    /\ Sent(trace[15]) = Data(<<232>>)
    /\ Sent(trace[26]) = Wait(120)

(* C2: when the transport fails the k-th call of new(), new() returns the  *)
(* error and no driver, and makes no transport or delay call after it.     *)

C2_InitAbortsAtFailure ==
    (Done("new") /\ call.failAt > 0) =>
        /\ result = "Err"
        /\ drv = NoDriver
        /\ trace # <<>>
        /\ ~trace[Len(trace)].ok
        /\ \A i \in 1..(Len(trace) - 1) : trace[i].ok
        /\ trace[Len(trace)].k # "delay"
        /\ Cardinality({i \in DOMAIN trace : trace[i].k # "delay"}) = call.failAt
        /\ Len(trace) <= 30
        /\ \A i \in DOMAIN trace :
              Sent(trace[i]) = InitSequence(call.mode,
                                 <<0, 12, 17, 4, 17, 8, 55, 137, 76, 6, 12, 10, 46, 52, 15>>,
                                 <<0, 11, 17, 5, 19, 9, 51, 103, 72, 7, 14, 11, 46, 51, 15>>)[i]

\* the data-send of MemoryAccessControl fails: 15 calls made, none of the
\* later commands
C2_Witness ==
    /\ Done("new")
    /\ call.failAt = 14
    /\ result = "Err"
    /\ Len(trace) = 15
    /\ Sent(trace[14]) = Cmd(54)
    /\ ~trace[15].ok

(* C3: a successful set_orientation(m) swaps width and height exactly when *)
(* is_landscape(m) differs from is_landscape of the orientation last       *)
(* applied to the panel (by new() or by the previous set_orientation);     *)
(* new(m0) followed by set_orientation(m0) leaves the dimensions alone.    *)

C3_SwapIffLandscapeDiffers ==
    (Done("set_orientation") /\ result = "Ok") =>
        IF is_landscape(call.mode) # is_landscape(pre.panelMode)
        THEN drv.width = pre.height /\ drv.height = pre.width
        ELSE drv.width = pre.width /\ drv.height = pre.height

(* C4: clear_screen(color) programs the column bounds (0, width) and the   *)
(* page bounds (0, height), sends MemoryWrite and streams width*height     *)
(* copies of color, high byte first; clear(c) does what clear_screen does  *)
(* with the raw 16-bit value of c.                                         *)

ClearSequence(color) ==
    << Cmd(42), Data(HiLo(0, pre.width)), Cmd(43), Data(HiLo(0, pre.height)),
       Cmd(44), Data(<<>>),
       Data([i \in 1..(2 * pre.width * pre.height) |->
               IF i % 2 = 1 THEN color \div 256 ELSE color % 256]) >>

U16At(bytes, i) == bytes[i] * 256 + bytes[i + 1]

\* The streams of the trace, each with the window programmed just before it
Streams ==
    { i \in DOMAIN trace : trace[i].k = "data" /\ trace[i].fmt = "U16BE" }

WindowOf(i) ==
    LET col == Wire(trace[i - 5])
        row == Wire(trace[i - 3])
    IN [x0 |-> U16At(col, 1), x1 |-> U16At(col, 3),
        y0 |-> U16At(row, 1), y1 |-> U16At(row, 3)]

WindowPixels(w) == (w.x1 - w.x0 + 1) * (w.y1 - w.y0 + 1)

ExactSupply ==
    \/ Done("draw_iter")
    \/ Done("clear_screen")
    \/ Done("clear")
    \/ Done("fill_contiguous") /\ Len(call.colors) = call.area.w * call.area.h

C5_StreamFillsWindow ==
    /\ ExactSupply =>
          \A i \in Streams : Len(trace[i].d) = WindowPixels(WindowOf(i))
    /\ (Done("clear_screen") \/ Done("clear")) =>
          \A i \in Streams :
              WindowOf(i) = [x0 |-> 0, x1 |-> pre.width - 1,
                             y0 |-> 0, y1 |-> pre.height - 1]

(* C6: for every in-bounds pixel of its input, in input order, draw_iter   *)
(* programs the window (p.x, p.y, p.x, p.y) once and streams that pixel's  *)
(* colour alone.                                                           *)

RECURSIVE PixelSequence(_)
PixelSequence(pixels) ==
    IF pixels = <<>> THEN <<>>
    ELSE (IF InBounds(Head(pixels).p)
          THEN WindowAndStream(Head(pixels).p[1], Head(pixels).p[2],
                               Head(pixels).p[1], Head(pixels).p[2],
                               <<RawU16(Head(pixels).c)>>)
          ELSE <<>>)
         \o PixelSequence(Tail(pixels))

C6_InBoundsPixelDrawn ==
    Done("draw_iter") => RunMatches(PixelSequence(call.pixels))

\* after a change of orientation: an out-of-bounds pixel between two
\* in-bounds ones, the second at the far corner
C6_Witness ==
    /\ Done("draw_iter")
    /\ result = "Ok"
    /\ pre.landscape
    /\ pre.width = HEIGHT
    /\ Len(call.pixels) = 2
    /\ call.pixels[1].p = <<0, 0>>
    /\ call.pixels[2].p = <<HEIGHT - 1, WIDTH - 1>>
    /\ Len(trace) = 14
    /\ Sent(trace[11]) = Data(<<1, 63, 1, 63>>)

(* C7: draw_iter makes no transport call for a pixel outside               *)
(* [0,width) x [0,height); when every pixel is outside it makes no call at *)
(* all and returns Ok.                                                     *)

C7_OutOfBoundsPixelSkipped ==
    Done("draw_iter") =>
        /\ (\A j \in DOMAIN call.pixels : ~InBounds(call.pixels[j].p))
              => (trace = <<>> /\ result = "Ok")
        /\ Cardinality({i \in DOMAIN trace : Sent(trace[i]) = Cmd(42)})
              <= Cardinality({j \in DOMAIN call.pixels : InBounds(call.pixels[j].p)})
        /\ \A i \in DOMAIN trace :
              (Sent(trace[i]) = Cmd(42) /\ i < Len(trace)) =>
                  \E j \in DOMAIN call.pixels :
                      /\ InBounds(call.pixels[j].p)
                      /\ Sent(trace[i + 1])
                           = Data(HiLo(call.pixels[j].p[1], call.pixels[j].p[1]))

C7_Witness ==
    /\ Done("draw_iter")
    /\ Len(call.pixels) = 2
    /\ call.pixels[1].p = <<pre.width, 0>>
    /\ call.pixels[2].p = <<-1, pre.height - 1>>
    /\ trace = <<>>
    /\ result = "Ok"

(* C8: fill_contiguous over a non-empty rectangle inside the bounding box, *)
(* given w*h colours, programs the window (x0, y0, x0+w-1, y0+h-1) once    *)
(* and streams those colours in the given order.                           *)

FullyInside(a) ==
    /\ a.w > 0 /\ a.h > 0
    /\ a.x >= 0 /\ a.y >= 0
    /\ a.x + a.w <= pre.width
    /\ a.y + a.h <= pre.height

EmptyIntersection(a) ==
    \/ a.w = 0 \/ a.h = 0
    \/ a.x + a.w <= 0 \/ a.x >= pre.width
    \/ a.y + a.h <= 0 \/ a.y >= pre.height

OneColorPerPoint == Len(call.colors) = call.area.w * call.area.h

C8_FillInsideStreamsAll ==
    (Done("fill_contiguous") /\ FullyInside(call.area) /\ OneColorPerPoint) =>
        LET a == call.area
        IN RunMatches(WindowAndStream(a.x, a.y, a.x + a.w - 1, a.y + a.h - 1,
                          [i \in 1..(a.w * a.h) |-> RawU16(call.colors[i])]))

C8_Witness ==
    /\ Done("fill_contiguous")
    /\ result = "Ok"
    /\ pre.width = WIDTH
    /\ call.area = Rect(WIDTH - 2, 0, 2, 2)
    /\ OneColorPerPoint
    /\ Sent(trace[2]) = Data(<<1, 62, 1, 63>>)
    /\ Sent(trace[4]) = Data(<<0, 0, 0, 1>>)
    /\ Len(trace[7].d) = 4

(* C9: fill_contiguous over a rectangle that straddles the edge of the     *)
(* bounding box, given one colour per rectangle point in row-major order,  *)
(* programs the window of the intersection and streams exactly the colours *)
(* of the points inside it, in their original order.                       *)

C9_FillStraddlingStreamsIntersection ==
    (Done("fill_contiguous") /\ OneColorPerPoint
        /\ ~FullyInside(call.area) /\ ~EmptyIntersection(call.area)) =>
        LET a == call.area
            ix0 == Max(a.x, 0)
            iy0 == Max(a.y, 0)
            ix1 == Min(a.x + a.w, pre.width) - 1
            iy1 == Min(a.y + a.h, pre.height) - 1
            iw == ix1 - ix0 + 1
            ih == iy1 - iy0 + 1
            \* the colour paired with the k-th point of the intersection
            ColorOf(k) ==
                call.colors[(iy0 + ((k - 1) \div iw) - a.y) * a.w
                            + (ix0 + ((k - 1) % iw) - a.x) + 1]
        IN RunMatches(WindowAndStream(ix0, iy0, ix1, iy1,
                          [k \in 1..(iw * ih) |-> RawU16(ColorOf(k))]))

\* a 2x2 rectangle with its right column beyond the right edge
C9_Witness ==
    /\ Done("fill_contiguous")
    /\ result = "Ok"
    /\ call.area = Rect(pre.width - 1, 0, 2, 2)
    /\ OneColorPerPoint
    /\ Sent(trace[2]) = Data(HiLo(pre.width - 1, pre.width - 1))
    /\ trace[7].d = <<RawU16(ColorAt(1)), RawU16(ColorAt(3))>>

(* C10: fill_contiguous over a rectangle that does not meet the bounding   *)
(* box (off-screen, or of zero width or height) makes no transport call    *)
(* and returns Ok.                                                         *)

C10_FillOutsideDoesNothing ==
    (Done("fill_contiguous") /\ EmptyIntersection(call.area)) =>
        (trace = <<>> /\ result = "Ok")

C10_Witness ==
    /\ Done("fill_contiguous")
    /\ call.area = Rect(pre.width, 0, 2, 2)
    /\ Len(call.colors) = 4
    /\ trace = <<>>
    /\ result = "Ok"

(* C11: in every state reachable after construction, whatever calls were   *)
(* made and whether they failed, width*height = SIZE::WIDTH*SIZE::HEIGHT   *)
(* and {width, height} = {SIZE::WIDTH, SIZE::HEIGHT}.                      *)

C11_AreaConstant ==
    drv # NoDriver =>
        /\ drv.width * drv.height = size.WIDTH * size.HEIGHT
        /\ \/ drv.width = size.WIDTH /\ drv.height = size.HEIGHT
           \/ drv.width = size.HEIGHT /\ drv.height = size.WIDTH

\* a second change of orientation has brought the dimensions back
C11_Witness ==
    /\ Done("set_orientation")
    /\ result = "Ok"
    /\ pre.landscape
    /\ pre.width = size.HEIGHT
    /\ ~drv.landscape
    /\ drv.width = size.WIDTH
    /\ drv.height = size.HEIGHT
    /\ size.WIDTH = WIDTH

(* C12: every MemoryWrite opcode is immediately preceded by                *)
(* ColumnAddressSet with 4 data bytes and then PageAddressSet with 4 data  *)
(* bytes, the bounds high byte first; every stream of pixels follows the   *)
(* MemoryWrite of the same call, never a window of an earlier call.        *)

C12_WindowBeforeEveryWrite ==
    /\ \A i \in DOMAIN trace :
          (trace[i].k = "cmd" /\ trace[i].d = <<44>>) =>
              /\ i >= 5
              /\ Sent(trace[i - 4]) = Cmd(42)
              /\ trace[i - 3].k = "data" /\ Len(Wire(trace[i - 3])) = 4
              /\ Sent(trace[i - 2]) = Cmd(43)
              /\ trace[i - 1].k = "data" /\ Len(Wire(trace[i - 1])) = 4
    /\ \A i \in Streams :
          /\ i >= 7
          /\ Sent(trace[i - 2]) = Cmd(44)
          /\ Sent(trace[i - 1]) = Data(<<>>)
    /\ Done("draw_raw_iter") =>
          RunMatches(WindowAndStream(call.x0, call.y0, call.x1, call.y1, call.data))

C12_Witness ==
    /\ Done("draw_raw_iter")
    /\ result = "Ok"
    /\ call.x0 = 0 /\ call.x1 = WIDTH - 1
    /\ call.y0 = HEIGHT - 1 /\ call.y1 = HEIGHT - 1
    /\ Len(call.data) = 2
    /\ Sent(trace[2]) = Data(<<0, 0, 1, 63>>)
    /\ Sent(trace[4]) = Data(<<0, 239, 0, 239>>)
    /\ Sent(trace[5]) = Cmd(44)

(* C13: in every operation after construction the first transport error    *)
(* ends the operation: the error is returned and no further call is made.  *)
(* A failed ColumnAddressSet or PageAddressSet is followed by no           *)
(* MemoryWrite and no pixels; a failure at pixel i of draw_iter leaves the *)
(* later pixels without any call.                                          *)

PostConstruction ==
    pc = "returned"
    /\ call.op \in {"draw_raw_iter", "draw_iter", "fill_contiguous", "clear_screen",
                    "clear", "set_orientation", "sleep_mode", "display_mode"}

C13_FirstErrorEndsOperation ==
    PostConstruction =>
        /\ StopsAtFailure
        /\ call.failAt > 0 =>
              /\ result = "Err"
              /\ Cardinality({i \in DOMAIN trace : trace[i].k # "delay"}) = call.failAt
              /\ ~trace[Len(trace)].ok
        /\ call.failAt = 0 => result = "Ok"
        /\ \A i \in DOMAIN trace : trace[i].k # "delay"
        /\ (Done("draw_iter") /\ call.failAt > 0) =>
              \* seven transport calls per drawn pixel: the windows begun are
              \* those of the pixels up to the one that failed
              Cardinality({i \in DOMAIN trace :
                              trace[i].k = "cmd" /\ trace[i].d = <<42>>})
                  = (call.failAt + 6) \div 7

\* PageAddressSet fails while the first of two in-bounds pixels is drawn
C13_Witness ==
    /\ Done("draw_iter")
    /\ Len(call.pixels) = 2
    /\ InBounds(call.pixels[1].p)
    /\ InBounds(call.pixels[2].p)
    /\ call.failAt = 3
    /\ result = "Err"
    /\ Len(trace) = 3
    /\ Sent(trace[3]) = Cmd(43)
    /\ ~trace[3].ok

(* C14: when the transport fails during set_orientation(m), on the command *)
(* byte or on the data byte, width, height and the landscape flag stay as  *)
(* they were.                                                              *)

FieldsUnchanged ==
    /\ drv.width = pre.width
    /\ drv.height = pre.height
    /\ drv.landscape = pre.landscape

C14_FailedOrientationKeepsFields ==
    (Done("set_orientation") /\ result = "Err") => FieldsUnchanged

\* the data byte of a landscape mode fails on a driver in portrait
C14_Witness ==
    /\ Done("set_orientation")
    /\ call.failAt = 2
    /\ result = "Err"
    /\ is_landscape(call.mode)
    /\ ~pre.landscape
    /\ ~drv.landscape
    /\ drv.width = size.WIDTH

(* C15: command(cmd, args) makes one send_commands call with the single    *)
(* opcode byte and then, only if it succeeded, one send_data call with the *)
(* bytes of args, also when args is empty.                                 *)

C15_CommandThenData ==
    /\ \A i \in DOMAIN trace :
          trace[i].k = "cmd" =>
              /\ trace[i].fmt = "U8"
              /\ Len(trace[i].d) = 1
              /\ trace[i].ok =>
                    /\ i < Len(trace)
                    /\ trace[i + 1].k = "data"
                    /\ trace[i + 1].fmt = "U8"
              /\ ~trace[i].ok => i = Len(trace)
    /\ \A i \in DOMAIN trace :
          (trace[i].k = "data" /\ trace[i].fmt = "U8") =>
              /\ i > 1
              /\ trace[i - 1].k = "cmd"
              /\ trace[i - 1].ok
    /\ Done("set_orientation") =>
          /\ Len(trace) = IF call.failAt = 1 THEN 1 ELSE 2
          /\ trace[1].d = <<54>>
          /\ Len(trace) = 2 => trace[2].d = <<mode(call.mode)>>

\* send_commands fails: send_data is not called
C15_Witness ==
    /\ Done("sleep_mode")
    /\ call.mode = "On"
    /\ call.failAt = 1
    /\ Len(trace) = 1
    /\ Sent(trace[1]) = Cmd(16)
    /\ ~trace[1].ok

(* C16: in any state sleep_mode(On/Off) sends exactly the opcode 0x10/0x11 *)
(* with no arguments and display_mode(On/Off) exactly 0x29/0x28 with no    *)
(* arguments, and both leave width, height and the landscape flag alone.   *)

C16_StatelessToggles ==
    /\ Done("sleep_mode") =>
          /\ RunMatches(<<Cmd(IF call.mode = "On" THEN 16 ELSE 17), Data(<<>>)>>)
          /\ FieldsUnchanged
    /\ Done("display_mode") =>
          /\ RunMatches(<<Cmd(IF call.mode = "On" THEN 41 ELSE 40), Data(<<>>)>>)
          /\ FieldsUnchanged

C16_Witness ==
    /\ Done("display_mode")
    /\ call.mode = "Off"
    /\ result = "Ok"
    /\ pre.landscape
    /\ drv.landscape
    /\ drv.width = size.HEIGHT
    /\ Sent(trace[1]) = Cmd(40)
    /\ Sent(trace[2]) = Data(<<>>)

(* C17: two consecutive successful set_orientation(m) calls leave width,   *)
(* height and the landscape flag as they were after the first, and each    *)
(* sends MemoryAccessControl with the single byte m.mode().  A successful  *)
(* call leaves the flag equal to is_landscape(m); a call that starts with  *)
(* the flag already equal to is_landscape(m), as the second of the two     *)
(* does, changes no field.                                                 *)

C17_OrientationIdempotent ==
    (Done("set_orientation") /\ result = "Ok") =>
        /\ [i \in DOMAIN trace |-> Sent(trace[i])]
             = <<Cmd(54), Data(<<mode(call.mode)>>)>>
        /\ drv.landscape = is_landscape(call.mode)
        /\ pre.landscape = is_landscape(call.mode) => FieldsUnchanged
        /\ Reoriented(drv, call.mode) = drv

\* the second set_orientation(Landscape): the flag is set only by an earlier
\* successful set_orientation
C17_Witness ==
    /\ Done("set_orientation")
    /\ result = "Ok"
    /\ call.mode = "Landscape"
    /\ pre.panelMode = "Landscape"
    /\ pre.landscape
    /\ drv.landscape
    /\ drv.width = pre.width
    /\ drv.width = size.HEIGHT

(* C18: the landscape flag determines the dimensions: (width, height) is   *)
(* (SIZE::WIDTH, SIZE::HEIGHT) when it is false and (SIZE::HEIGHT,         *)
(* SIZE::WIDTH) when it is true; right after a successful new() the flag   *)
(* is false whatever orientation was passed.                               *)

C18_FlagDeterminesDimensions ==
    /\ drv # NoDriver =>
          IF drv.landscape
          THEN drv.width = size.HEIGHT /\ drv.height = size.WIDTH
          ELSE drv.width = size.WIDTH /\ drv.height = size.HEIGHT
    /\ (Done("new") /\ result = "Ok") =>
          /\ ~drv.landscape
          /\ drv.width = call.size.WIDTH
          /\ drv.height = call.size.HEIGHT

C18_Witness ==
    /\ Done("new")
    /\ result = "Ok"
    /\ call.mode = "Landscape"
    /\ ~drv.landscape
    /\ drv.width = WIDTH
    /\ drv.height = HEIGHT

(* C19: every window programmed by draw_iter, fill_contiguous and clear    *)
(* lies inside the panel: 0 <= x0 <= x1 <= width-1 and                     *)
(* 0 <= y0 <= y1 <= height-1 for the current width and height.             *)

C19_WindowInsidePanel ==
    (Done("draw_iter") \/ Done("fill_contiguous") \/ Done("clear")) =>
        \A i \in Streams :
            LET w == WindowOf(i)
            IN /\ 0 <= w.x0 /\ w.x0 <= w.x1 /\ w.x1 <= pre.width - 1
               /\ 0 <= w.y0 /\ w.y0 <= w.y1 /\ w.y1 <= pre.height - 1

(* C20: whatever the number n of colours given, fill_contiguous never      *)
(* streams more colours than the programmed window has pixels; for a       *)
(* rectangle of w*h points inside the bounds it streams the first          *)
(* min(n, w*h) colours in order, and too few colours still return Ok.      *)

C20_FillNeverOversupplies ==
    Done("fill_contiguous") =>
        /\ \A i \in Streams : Len(trace[i].d) <= WindowPixels(WindowOf(i))
        /\ call.failAt = 0 => result = "Ok"
        /\ FullyInside(call.area) =>
              LET a == call.area
                  n == Min(Len(call.colors), a.w * a.h)
              IN RunMatches(WindowAndStream(a.x, a.y, a.x + a.w - 1, a.y + a.h - 1,
                                [i \in 1..n |-> RawU16(call.colors[i])]))

\* five colours for a 2x2 rectangle: four are streamed
C20_Witness ==
    /\ Done("fill_contiguous")
    /\ result = "Ok"
    /\ call.area = Rect(0, 0, 2, 2)
    /\ Len(call.colors) = 5
    /\ trace[7].d = <<RawU16(ColorAt(1)), RawU16(ColorAt(2)),
                      RawU16(ColorAt(3)), RawU16(ColorAt(4))>>

\* one colour for a 2x2 rectangle: it is streamed and the call returns Ok
C20_WitnessShort ==
    /\ Done("fill_contiguous")
    /\ result = "Ok"
    /\ call.area = Rect(0, 0, 2, 2)
    /\ Len(call.colors) = 1
    /\ trace[7].d = <<RawU16(ColorAt(1))>>

====
